---- MODULE Spec2Model ----
(***************************************************************************)
(* Payment lifecycle and ledger engine of LessonsKwork: payment intents    *)
(* (backend/services/payment_service.py), the Telegram webhook             *)
(* (backend/api/payments.py), promo codes (backend/services/               *)
(* promo_service.py) and the withdrawal ledger (backend/services/          *)
(* withdraw_service.py, finance_service.py).                               *)
(*                                                                         *)
(* The persisted tables are the variables purchases, promos and withdraws. *)
(* Every service call runs in its own database session: a value it has     *)
(* read stays what it was when read, and a commit writes the attributes    *)
(* the call assigned (UPDATE ... SET col = <value computed in Python>).    *)
(* A call whose outcome depends on the interleaving of its reads and its   *)
(* commits with other sessions is split into one action per statement.     *)
(*                                                                         *)
(* A nullable column holds 0 for NULL: the code tests these columns by     *)
(* truthiness (`if promo.max_uses and ...`), which reads 0 and None alike. *)
(* Purchase.updated_at and the free-text columns are not modelled.         *)
(***************************************************************************)
EXTENDS Integers, Sequences, FiniteSets, TLC

VARIABLES
    now,        \* datetime.utcnow(), in minutes
    lessons,    \* table lessons: id -> [price, is_active]
    courses,    \* table courses: id -> [total_price, discount_price, is_active]
    users,      \* table users: id -> [is_active]
    purchases,  \* table purchases: id -> row (ids are 1..Len(purchases))
    promos,     \* table promocodes: code -> row
    withdraws,  \* table withdraw_requests: id -> row
    creator,    \* create_payment calls in progress, per client
    redeemer,   \* use_promo_code calls in progress, per client
    sweeper,    \* the cancel_expired_payments call in progress
    requester,  \* create_withdraw_request calls in progress, per client
    tasks,      \* background tasks queued by payment_webhook
    ret,        \* what the last finished call returned
    redeem_ok,  \* history: successful use_promo_code returns, per code
    promo_incr, \* history: current_uses increments committed by create_payment, per code
    audit       \* the entries written to logs/financial_audit.log

vars == <<now, lessons, courses, users, purchases, promos, withdraws, creator,
          redeemer, sweeper, requester, tasks, ret, redeem_ok, promo_incr, audit>>

catalogVars == <<lessons, courses, users>>
promoVars == <<promos, redeemer, redeem_ok, promo_incr>>
ledgerVars == <<withdraws, requester>>

----------------------------------------------------------------------------
(* Program constants (bot/shared/constants.py).                            *)

MIN_PRICE == 1
COMMISSION_PERCENT == 5
PAYMENT_TIMEOUT_MINUTES == 30
MIN_WITHDRAW_AMOUNT == 100
MAX_WITHDRAW_AMOUNT == 50000
TELEGRAM_STARS_CURRENCY == "XTR"

PENDING == "pending"
COMPLETED == "completed"
FAILED == "failed"
REFUNDED == "refunded"
APPROVED == "approved"
REJECTED == "rejected"

(* Bounds of the model.                                                    *)
MaxPurchases == 2
MaxTime == 32
MaxTasks == 1
MaxCalls == 3
MaxWithdraws == 2
MaxUses == 2

NumClients == 2
Clients == 1..NumClients
TickSteps == {15, 16}

Max(a, b) == IF a >= b THEN a ELSE b
Min(a, b) == IF a <= b THEN a ELSE b

PurchaseIds == 1..Len(purchases)

NoRet == [op |-> "none", arg |-> 0, ok |-> FALSE, val |-> 0, prev |-> "none"]
Ret(op, arg, ok, val, prev) == [op |-> op, arg |-> arg, ok |-> ok, val |-> val, prev |-> prev]

IdleCreator == [pc |-> "idle", user_id |-> 0, item_id |-> 0, item_type |-> "none",
                code |-> "none", snap |-> 0, base |-> 0, discount |-> 0, final |-> 0]
IdleRedeemer == [pc |-> "idle", code |-> "none", snap |-> 0]
IdleSweeper == [pc |-> "idle", selected |-> {}]
IdleRequester == [pc |-> "idle", amount |-> 0]

\* The sum of the amount column over the rows whose status is one of statuses.
RECURSIVE SumAmounts(_, _)
SumAmounts(rows, statuses) ==
    IF rows = <<>> THEN 0
    ELSE (IF Head(rows).status \in statuses THEN Head(rows).amount ELSE 0)
         + SumAmounts(Tail(rows), statuses)

\* Calls that have loaded a promo row and not yet returned.
InFlight(code) ==
    Cardinality({c \in Clients : redeemer[c].pc # "idle" /\ redeemer[c].code = code})
    + Cardinality({c \in Clients : creator[c].pc # "idle" /\ creator[c].code = code})

CreatesInFlight == Cardinality({c \in Clients : creator[c].pc # "idle"})

----------------------------------------------------------------------------
(* AuditLogger (bot/shared/utils/audit_logger.py): each method writes one   *)
(* entry to the audit log; the timestamp of an entry is not modelled.  No   *)
(* service and no endpoint of the repository calls these methods.           *)

log_payment_created(payment_id, user_id, amount) ==
    Append(audit, [action |-> "payment_created", payment_id |-> payment_id,
                   user_id |-> user_id, amount |-> amount])

log_payment_completed(payment_id, amount, user_id) ==
    Append(audit, [action |-> "payment_completed", payment_id |-> payment_id,
                   user_id |-> user_id, amount |-> amount])

log_payment_failed(payment_id, error, user_id, amount) ==
    Append(audit, [action |-> "payment_failed", payment_id |-> payment_id,
                   user_id |-> user_id, amount |-> amount])

----------------------------------------------------------------------------
(* PaymentService (backend/services/payment_service.py).                   *)

\* _get_item_and_price: the row and the base price; an unsupported type raises.
ItemExists(item_id, item_type) ==
    IF item_type = "lesson" THEN item_id \in DOMAIN lessons
    ELSE item_id \in DOMAIN courses

ItemActive(item_id, item_type) ==
    IF item_type = "lesson" THEN lessons[item_id].is_active
    ELSE courses[item_id].is_active

\* price = item.price | item.discount_price or item.total_price | 0 when missing
ItemPrice(item_id, item_type) ==
    IF ~ItemExists(item_id, item_type) THEN 0
    ELSE IF item_type = "lesson" THEN lessons[item_id].price
    ELSE IF courses[item_id].discount_price # 0 THEN courses[item_id].discount_price
    ELSE courses[item_id].total_price

\* _check_existing_purchase: a completed purchase of the item by the user.
\* For any type other than "lesson" the course_id column is compared.
check_existing_purchase(user_id, item_id, item_type) ==
    \E id \in PurchaseIds :
        /\ purchases[id].user_id = user_id
        /\ purchases[id].status = COMPLETED
        /\ IF item_type = "lesson" THEN purchases[id].lesson_id = item_id
           ELSE purchases[id].course_id = item_id

\* The row create_payment inserts; payment_id is fresh (uuid4), modelled by the row id.
NewPurchase(user_id, item_id, item_type, final_price) ==
    [user_id |-> user_id,
     lesson_id |-> IF item_type = "lesson" THEN item_id ELSE 0,
     course_id |-> IF item_type = "lesson" THEN 0 ELSE item_id,
     payment_id |-> Len(purchases) + 1,
     amount |-> final_price,
     status |-> PENDING,
     created_at |-> now]

\* A variant without the test for an earlier completed purchase.
create_payment_precheck_no_duplicate_test(user_id, item_id, item_type) ==
    IF user_id \notin DOMAIN users THEN "user_not_found"
    ELSE IF ~users[user_id].is_active THEN "user_inactive"
    ELSE IF item_type \notin {"lesson", "course"} THEN "unsupported_item_type"
    ELSE IF ~ItemExists(item_id, item_type) THEN "item_not_found"
    ELSE IF ~ItemActive(item_id, item_type) THEN "item_inactive"
    ELSE "ok"

\* The check create_payment makes before it looks at the promo code:
\* "ok", or the error it raises.
create_payment_precheck(user_id, item_id, item_type) ==
    IF user_id \notin DOMAIN users THEN "user_not_found"
    ELSE IF ~users[user_id].is_active THEN "user_inactive"
    ELSE IF item_type \notin {"lesson", "course"} THEN "unsupported_item_type"
    ELSE IF ~ItemExists(item_id, item_type) THEN "item_not_found"
    ELSE IF ~ItemActive(item_id, item_type) THEN "item_inactive"
    ELSE IF check_existing_purchase(user_id, item_id, item_type) THEN "already_purchased"
    ELSE "ok"

\* A variant that refuses a row that is no longer pending.
process_successful_payment_pending_only(purchase_id) ==
    IF purchase_id \notin PurchaseIds \/ purchases[purchase_id].status # PENDING
    THEN [ok |-> FALSE, purchases |-> purchases]
    ELSE [ok |-> TRUE,
          purchases |-> [purchases EXCEPT ![purchase_id].status = COMPLETED]]

\* process_successful_payment(purchase_id): the row is looked up by id and, when
\* found, its status is set to completed whatever it was.
process_successful_payment(purchase_id) ==
    IF purchase_id \notin PurchaseIds
    THEN [ok |-> FALSE, purchases |-> purchases]
    ELSE [ok |-> TRUE,
          purchases |-> [purchases EXCEPT ![purchase_id].status = COMPLETED]]

\* handle_failed_payment(purchase_id, error): as above, with failed.
handle_failed_payment(purchase_id) ==
    IF purchase_id \notin PurchaseIds
    THEN [ok |-> FALSE, purchases |-> purchases]
    ELSE [ok |-> TRUE,
          purchases |-> [purchases EXCEPT ![purchase_id].status = FAILED]]

\* A variant whose comparison with the cut-off is reversed.
IsExpiredPending_reversed(p) ==
    /\ p.status = PENDING
    /\ p.created_at > now - PAYMENT_TIMEOUT_MINUTES

\* A variant whose cut-off includes the row created exactly the timeout ago.
IsExpiredPending_inclusive(p) ==
    /\ p.status = PENDING
    /\ p.created_at <= now - PAYMENT_TIMEOUT_MINUTES

\* The filter of cancel_expired_payments' query.
IsExpiredPending(p) ==
    /\ p.status = PENDING
    /\ p.created_at < now - PAYMENT_TIMEOUT_MINUTES

\* _create_invoice_payload without its timestamp.
InvoicePayload(p) ==
    [user_id |-> p.user_id,
     item_id |-> IF p.lesson_id # 0 THEN p.lesson_id ELSE p.course_id,
     item_type |-> IF p.lesson_id # 0 THEN "lesson" ELSE "course",
     payment_id |-> p.payment_id]

----------------------------------------------------------------------------
(* Actions: PaymentService calls.                                          *)

\* The PaymentCreateResponse create_payment returns.
PaymentCreateResponse(base_price, final_price, discount) ==
    [amount |-> base_price, final_amount |-> final_price, discount_applied |-> discount]

\* create_payment without a promo code: checks and insert.
CreatePayment(c, user_id, item_id, item_type) ==
    /\ creator[c].pc = "idle"
    /\ Len(purchases) + CreatesInFlight < MaxPurchases
    /\ LET chk == create_payment_precheck(user_id, item_id, item_type)
           price == ItemPrice(item_id, item_type)
       IN IF chk = "ok"
          THEN /\ purchases' = Append(purchases,
                                      NewPurchase(user_id, item_id, item_type, price))
               /\ ret' = Ret("create_payment", Len(purchases) + 1, TRUE,
                             PaymentCreateResponse(price, price, 0), "none")
          ELSE /\ purchases' = purchases
               /\ ret' = Ret("create_payment", 0, FALSE, 0, chk)
    /\ UNCHANGED <<now, audit, catalogVars, promoVars, ledgerVars, creator, sweeper, tasks>>

FinalizeIntent(purchase_id) ==
    /\ LET r == process_successful_payment(purchase_id)
       IN /\ purchases' = r.purchases
          /\ ret' = Ret("process_successful_payment", purchase_id, r.ok, 0,
                        IF purchase_id \in PurchaseIds
                        THEN purchases[purchase_id].status ELSE "none")
    /\ UNCHANGED <<now, audit, catalogVars, promoVars, ledgerVars, creator, sweeper, tasks>>

FailIntent(purchase_id) ==
    /\ LET r == handle_failed_payment(purchase_id)
       IN /\ purchases' = r.purchases
          /\ ret' = Ret("handle_failed_payment", purchase_id, r.ok, 0,
                        IF purchase_id \in PurchaseIds
                        THEN purchases[purchase_id].status ELSE "none")
    /\ UNCHANGED <<now, audit, catalogVars, promoVars, ledgerVars, creator, sweeper, tasks>>

\* cancel_expired_payments, the query: the session loads the expired pending rows.
SweepQuery ==
    /\ sweeper.pc = "idle"
    /\ sweeper' = [pc |-> "loaded",
                   selected |-> {id \in PurchaseIds : IsExpiredPending(purchases[id])}]
    /\ UNCHANGED <<now, audit, catalogVars, purchases, promoVars, ledgerVars, creator, tasks, ret>>

\* cancel_expired_payments, the loop and commit: every loaded row is written failed.
SweepCommit ==
    /\ sweeper.pc = "loaded"
    /\ purchases' = [id \in PurchaseIds |->
                        IF id \in sweeper.selected
                        THEN [purchases[id] EXCEPT !.status = FAILED]
                        ELSE purchases[id]]
    /\ ret' = Ret("cancel_expired_payments", 0, TRUE, Cardinality(sweeper.selected), "none")
    /\ sweeper' = IdleSweeper
    /\ UNCHANGED <<now, audit, catalogVars, promoVars, ledgerVars, creator, tasks>>

\* _cleanup_expired_payments_task when cancel_expired_payments raises before its
\* commit has taken effect: the error is logged and no row is written.
SweepAbort ==
    /\ sweeper.pc = "loaded"
    /\ ret' = Ret("cancel_expired_payments", 0, FALSE, 0, "error")
    /\ sweeper' = IdleSweeper
    /\ UNCHANGED <<now, audit, catalogVars, purchases, promoVars, ledgerVars, creator, tasks>>

Tick(d) ==
    /\ now + d <= MaxTime
    /\ now' = now + d
    /\ UNCHANGED <<audit, catalogVars, purchases, promoVars, ledgerVars, creator, sweeper,
                   tasks, ret>>

----------------------------------------------------------------------------
(* The webhook (backend/api/payments.py).                                  *)

\* What a successful_payment update carries. form: "ok", "empty" (no
\* successful_payment object), "malformed" (invoice_payload is not JSON),
\* "no_id" (no payment_id in the payload).
Update(form, payment_id, user_id, item_id, item_type, total_amount, currency) ==
    [form |-> form, payment_id |-> payment_id, user_id |-> user_id,
     item_id |-> item_id, item_type |-> item_type,
     total_amount |-> total_amount, currency |-> currency]

\* The update Telegram sends for purchase row p, and the ways it can differ.
UpdateFor(p, kind) ==
    LET pl == InvoicePayload(p)
    IN CASE kind = "genuine" ->
                Update("ok", pl.payment_id, pl.user_id, pl.item_id, pl.item_type,
                       p.amount, TELEGRAM_STARS_CURRENCY)
         [] kind = "wrong_amount" ->
                Update("ok", pl.payment_id, pl.user_id, pl.item_id, pl.item_type,
                       p.amount - 1, TELEGRAM_STARS_CURRENCY)
         [] kind = "wrong_currency" ->
                Update("ok", pl.payment_id, pl.user_id, pl.item_id, pl.item_type,
                       p.amount, "USD")
         [] kind = "wrong_payload" ->
                Update("ok", pl.payment_id, pl.user_id + 1, pl.item_id, pl.item_type,
                       p.amount, TELEGRAM_STARS_CURRENCY)
         [] kind = "unknown_id" ->
                Update("ok", MaxPurchases + 1, pl.user_id, pl.item_id, pl.item_type,
                       p.amount, TELEGRAM_STARS_CURRENCY)
         [] OTHER ->
                Update(kind, 0, 0, 0, "none", 0, TELEGRAM_STARS_CURRENCY)

UpdateKinds == {"genuine", "wrong_amount", "wrong_currency", "wrong_payload",
                "unknown_id", "empty", "malformed", "no_id"}

\* The purchase row _process_successful_payment_webhook finds for an update, 0 when
\* it returns before process_successful_payment.
WebhookPurchase(u) ==
    IF u.form # "ok" THEN 0
    ELSE IF \E id \in PurchaseIds : purchases[id].payment_id = u.payment_id
    THEN CHOOSE id \in PurchaseIds : purchases[id].payment_id = u.payment_id
    ELSE 0

\* payment_webhook, update_type = "successful_payment": the task is queued and the
\* provider is answered {"ok": true}.
PaymentWebhook(u) ==
    /\ Len(tasks) < MaxTasks
    /\ tasks' = Append(tasks, u)
    /\ ret' = Ret("payment_webhook", u.payment_id, TRUE, 0, "none")
    /\ UNCHANGED <<now, audit, catalogVars, purchases, promoVars, ledgerVars, creator, sweeper>>

\* _process_successful_payment_webhook, run as a background task.
WebhookTask ==
    /\ tasks # <<>>
    /\ LET u == Head(tasks)
           id == WebhookPurchase(u)
           r == process_successful_payment(id)
       IN /\ purchases' = r.purchases
          /\ ret' = Ret("webhook_task", id, r.ok, 0,
                        IF id \in PurchaseIds THEN purchases[id].status ELSE "none")
    /\ tasks' = Tail(tasks)
    /\ UNCHANGED <<now, audit, catalogVars, promoVars, ledgerVars, creator, sweeper>>

\* _create_invoice_payload: the JSON text of the four correlation fields and the
\* time of the call.
create_invoice_payload(user_id, item_id, item_type, payment_id) ==
    [user_id |-> user_id, item_id |-> item_id, item_type |-> item_type,
     payment_id |-> payment_id, timestamp |-> now]

\* The data Telegram reports for update u, whose invoice payload was created at
\* time ts.
TelegramData(u, ts) ==
    [total_amount |-> u.total_amount, currency |-> u.currency,
     invoice_payload |-> [user_id |-> u.user_id, item_id |-> u.item_id,
                          item_type |-> u.item_type, payment_id |-> u.payment_id,
                          timestamp |-> ts]]

\* verify_payment(payment_id, telegram_payment_data): the reported payload is
\* compared with a payload created anew.
verify_payment(payment_id, telegram_payment_data) ==
    IF ~ \E id \in PurchaseIds : purchases[id].payment_id = payment_id THEN FALSE
    ELSE LET purchase == purchases[CHOOSE id \in PurchaseIds :
                                      purchases[id].payment_id = payment_id]
         IN IF purchase.status # PENDING THEN FALSE
            ELSE IF telegram_payment_data.total_amount # purchase.amount THEN FALSE
            ELSE IF telegram_payment_data.currency # TELEGRAM_STARS_CURRENCY THEN FALSE
            ELSE telegram_payment_data.invoice_payload =
                     create_invoice_payload(
                         purchase.user_id,
                         IF purchase.lesson_id # 0 THEN purchase.lesson_id
                                                   ELSE purchase.course_id,
                         IF purchase.lesson_id # 0 THEN "lesson" ELSE "course",
                         payment_id)

\* A call of verify_payment.
VerifyPayment(payment_id, telegram_payment_data) ==
    /\ ret' = Ret("verify_payment", payment_id,
                  verify_payment(payment_id, telegram_payment_data), 0, "none")
    /\ UNCHANGED <<now, audit, catalogVars, purchases, promoVars, ledgerVars, creator,
                   sweeper, tasks>>

\* get_payment_status(payment_id): the status of the Purchase with that
\* payment_id, "none" for None.
get_payment_status(payment_id) ==
    IF \E id \in PurchaseIds : purchases[id].payment_id = payment_id
    THEN purchases[CHOOSE id \in PurchaseIds : purchases[id].payment_id = payment_id].status
    ELSE "none"

\* _validate_pre_checkout(invoice_payload): False for a payload that is not JSON
\* or carries no payment_id, otherwise whether the payment's status is pending.
validate_pre_checkout(u) ==
    IF u.form # "ok" THEN FALSE
    ELSE get_payment_status(u.payment_id) = PENDING

\* payment_webhook, update_type = "pre_checkout_query": the provider is answered
\* {"ok": is_valid}.
PreCheckout(u) ==
    /\ ret' = Ret("pre_checkout_query", u.payment_id, validate_pre_checkout(u), 0,
                  IF u.form = "ok" THEN get_payment_status(u.payment_id) ELSE "none")
    /\ UNCHANGED <<now, audit, catalogVars, purchases, promoVars, ledgerVars, creator, sweeper, tasks>>

\* LessonService.update_lesson(lesson_id, is_active = ...): the administrator
\* activates or deactivates a lesson.
UpdateLesson(lesson_id, is_active) ==
    /\ lesson_id \in DOMAIN lessons
    /\ lessons' = [lessons EXCEPT ![lesson_id].is_active = is_active]
    /\ ret' = Ret("update_lesson", lesson_id, TRUE, 0, "none")
    /\ UNCHANGED <<now, audit, courses, users, purchases, promoVars, ledgerVars, creator, sweeper, tasks>>

----------------------------------------------------------------------------
(* PromoCodeService (backend/services/promo_service.py), PromoCode          *)
(* (bot/shared/models.py) and PaymentService._apply_promo_code.             *)

\* code.upper(), on the codes the model's clients send.
Upper(code) ==
    CASE code = "test10" -> "TEST10"
      [] code = "fix20" -> "FIX20"
      [] OTHER -> code

\* A variant of the limit test that is off by one.
IsExhausted_off_by_one(promo) ==
    promo.max_uses # 0 /\ promo.current_uses > promo.max_uses

\* `promo.max_uses and promo.current_uses >= promo.max_uses`
IsExhausted(promo) ==
    promo.max_uses # 0 /\ promo.current_uses >= promo.max_uses

\* A variant in which the code expires at expires_at itself.
IsExpired_inclusive(promo) ==
    promo.expires_at # 0 /\ promo.expires_at <= now

\* `promo.expires_at and promo.expires_at < datetime.utcnow()`
IsExpired(promo) ==
    promo.expires_at # 0 /\ promo.expires_at < now

\* PromoCode.is_valid
is_valid(promo) ==
    IF ~promo.is_active THEN FALSE
    ELSE IF IsExpired(promo) THEN FALSE
    ELSE IF IsExhausted(promo) THEN FALSE
    ELSE TRUE

\* validate_promo_code(code): "ok", or the reason of the ValueError it raises.
validate_promo_code(code) ==
    IF Upper(code) \notin DOMAIN promos THEN "not_found"
    ELSE IF ~promos[Upper(code)].is_active THEN "inactive"
    ELSE IF IsExpired(promos[Upper(code)]) THEN "expired"
    ELSE IF IsExhausted(promos[Upper(code)]) THEN "exhausted"
    ELSE "ok"

\* A call of validate_promo_code(code): the promo code is returned, or the
\* ValueError is raised; nothing is written.
Validate(code) ==
    /\ ret' = Ret("validate_promo_code", 0, validate_promo_code(code) = "ok",
                  IF Upper(code) \in DOMAIN promos
                  THEN promos[Upper(code)].current_uses ELSE 0,
                  validate_promo_code(code))
    /\ UNCHANGED <<now, audit, catalogVars, purchases, promoVars, ledgerVars, creator,
                   sweeper, tasks>>

\* The row use_promo_code commits for a promo it loaded with current_uses = snap:
\* the counter it computed, and is_active cleared when that reaches max_uses.
UsedPromo(promo, snap) ==
    [promo EXCEPT !.current_uses = snap + 1,
                  !.is_active = IF promo.max_uses # 0 /\ snap + 1 >= promo.max_uses
                                THEN FALSE ELSE @]

\* The check _apply_promo_code makes on the row it loaded: "ok" or its error.
apply_promo_code_check(code) ==
    IF Upper(code) \notin DOMAIN promos THEN "promo_invalid"
    ELSE IF ~is_valid(promos[Upper(code)]) THEN "promo_invalid"
    ELSE IF IsExhausted(promos[Upper(code)]) THEN "promo_exhausted"
    ELSE "ok"

\* The discount _apply_promo_code computes.
apply_promo_code_discount(promo, base_price) ==
    IF promo.discount_amount # 0 THEN Min(promo.discount_amount, base_price)
    ELSE (base_price * promo.discount_percent) \div 100

apply_promo_code_final(promo, base_price) ==
    Max(MIN_PRICE, base_price - apply_promo_code_discount(promo, base_price))

\* A variant without the last cap of the discount.
apply_discount_uncapped(promo_code, amount) ==
    LET discount == IF promo_code.discount_amount # 0
                    THEN Min(promo_code.discount_amount, amount - MIN_PRICE)
                    ELSE (amount * promo_code.discount_percent) \div 100
        final_amount == Max(MIN_PRICE, amount - discount)
    IN [original_amount |-> amount,
        discount_amount |-> discount,
        final_amount |-> final_amount,
        discount_percent |-> IF amount > 0 THEN (discount * 100) \div amount ELSE 0]

\* A variant that rounds the percentage up.
apply_discount_round_up(promo_code, amount) ==
    LET first == IF promo_code.discount_amount # 0
                 THEN Min(promo_code.discount_amount, amount - MIN_PRICE)
                 ELSE (amount * promo_code.discount_percent + 99) \div 100
        discount == Min(first, amount - MIN_PRICE)
        final_amount == Max(MIN_PRICE, amount - discount)
    IN [original_amount |-> amount,
        discount_amount |-> discount,
        final_amount |-> final_amount,
        discount_percent |-> IF amount > 0 THEN (discount * 100) \div amount ELSE 0]

\* PromoCodeService.apply_discount(promo_code, amount)
apply_discount(promo_code, amount) ==
    LET first == IF promo_code.discount_amount # 0
                 THEN Min(promo_code.discount_amount, amount - MIN_PRICE)
                 ELSE (amount * promo_code.discount_percent) \div 100
        discount == Min(first, amount - MIN_PRICE)
        final_amount == Max(MIN_PRICE, amount - discount)
    IN [original_amount |-> amount,
        discount_amount |-> discount,
        final_amount |-> final_amount,
        discount_percent |-> IF amount > 0 THEN (discount * 100) \div amount ELSE 0]

\* A call of apply_discount on a stored promo code; the result is returned.
ApplyDiscount(code, amount) ==
    /\ code \in DOMAIN promos
    /\ ret' = Ret("apply_discount", amount, TRUE, apply_discount(promos[code], amount), code)
    /\ UNCHANGED <<now, audit, catalogVars, purchases, promoVars, ledgerVars, creator, sweeper, tasks>>

\* use_promo_code, up to the end of validate_promo_code: the row is loaded and
\* checked, or False is returned.
RedeemBegin(c, code) ==
    /\ redeemer[c].pc = "idle"
    /\ LET chk == validate_promo_code(code)
       IN IF chk = "ok"
          THEN /\ redeem_ok[Upper(code)] + promo_incr[Upper(code)] + InFlight(Upper(code)) < MaxCalls
               /\ redeemer' = [redeemer EXCEPT ![c] =
                      [pc |-> "validated", code |-> Upper(code),
                       snap |-> promos[Upper(code)].current_uses]]
               /\ ret' = ret
          ELSE /\ redeemer' = redeemer
               /\ ret' = Ret("use_promo_code", 0, FALSE, 0, chk)
    /\ UNCHANGED <<now, audit, catalogVars, purchases, promos, redeem_ok, promo_incr,
                   ledgerVars, creator, sweeper, tasks>>

\* use_promo_code, the increment and the commit; True is returned.
RedeemCommit(c) ==
    /\ redeemer[c].pc = "validated"
    /\ LET code == redeemer[c].code
       IN /\ promos' = [promos EXCEPT ![code] = UsedPromo(@, redeemer[c].snap)]
          /\ redeem_ok' = [redeem_ok EXCEPT ![code] = @ + 1]
    /\ redeemer' = [redeemer EXCEPT ![c] = IdleRedeemer]
    /\ ret' = Ret("use_promo_code", 0, TRUE, redeemer[c].snap + 1, "ok")
    /\ UNCHANGED <<now, audit, catalogVars, purchases, promo_incr, ledgerVars, creator,
                   sweeper, tasks>>

\* create_payment with a promo code, up to the checks of _apply_promo_code.
CreateBegin(c, user_id, item_id, item_type, code) ==
    /\ creator[c].pc = "idle"
    /\ Len(purchases) + CreatesInFlight < MaxPurchases
    /\ LET pre == create_payment_precheck(user_id, item_id, item_type)
           chk == IF pre = "ok" THEN apply_promo_code_check(code) ELSE pre
           base == ItemPrice(item_id, item_type)
       IN IF chk = "ok"
          THEN /\ redeem_ok[Upper(code)] + promo_incr[Upper(code)] + InFlight(Upper(code)) < MaxCalls
               /\ creator' = [creator EXCEPT ![c] =
                      [pc |-> "promo_loaded", user_id |-> user_id, item_id |-> item_id,
                       item_type |-> item_type, code |-> Upper(code),
                       snap |-> promos[Upper(code)].current_uses,
                       base |-> base,
                       discount |-> apply_promo_code_discount(promos[Upper(code)], base),
                       final |-> apply_promo_code_final(promos[Upper(code)], base)]]
               /\ ret' = ret
          ELSE /\ creator' = creator
               /\ ret' = Ret("create_payment", 0, FALSE, 0, chk)
    /\ UNCHANGED <<now, audit, catalogVars, purchases, promoVars, ledgerVars, sweeper, tasks>>

\* _apply_promo_code: promo.current_uses += 1 and the commit.
CreatePromoCommit(c) ==
    /\ creator[c].pc = "promo_loaded"
    /\ promos' = [promos EXCEPT ![creator[c].code].current_uses = creator[c].snap + 1]
    /\ promo_incr' = [promo_incr EXCEPT ![creator[c].code] = @ + 1]
    /\ creator' = [creator EXCEPT ![c].pc = "promo_committed"]
    /\ UNCHANGED <<now, audit, catalogVars, purchases, redeemer, redeem_ok, ledgerVars,
                   sweeper, tasks, ret>>

\* create_payment after _apply_promo_code: the pending row is inserted.
CreateInsert(c) ==
    /\ creator[c].pc = "promo_committed"
    /\ purchases' = Append(purchases,
                           NewPurchase(creator[c].user_id, creator[c].item_id,
                                       creator[c].item_type, creator[c].final))
    /\ ret' = Ret("create_payment", Len(purchases) + 1, TRUE,
                  PaymentCreateResponse(creator[c].base, creator[c].final,
                                        creator[c].discount),
                  creator[c].code)
    /\ creator' = [creator EXCEPT ![c] = IdleCreator]
    /\ UNCHANGED <<now, audit, catalogVars, promoVars, ledgerVars, sweeper, tasks>>

\* create_payment after _apply_promo_code, when the insert's commit raises (a
\* database error, or the process stops): the call ends without a Purchase; the
\* increment _apply_promo_code committed stays.
CreateInsertFails(c) ==
    /\ creator[c].pc = "promo_committed"
    /\ ret' = Ret("create_payment", 0, FALSE, 0, "db_error")
    /\ creator' = [creator EXCEPT ![c] = IdleCreator]
    /\ UNCHANGED <<now, audit, catalogVars, purchases, promoVars, ledgerVars, sweeper, tasks>>

----------------------------------------------------------------------------
(* WithdrawService (backend/services/withdraw_service.py) and               *)
(* FinanceService.calculate_withdrawable_amount (finance_service.py).       *)
(* processed_at holds -1 for NULL.                                          *)
(* Line 157 of withdraw_service.py holds process_withdraw,                  *)
(* _calculate_available_amount and the methods after them as one line, the  *)
(* line breaks written as backslash-n; they are modelled as the methods     *)
(* that text spells out.                                                    *)

WithdrawIds == 1..Len(withdraws)

\* A variant that forgets the pending requests.
calculate_available_amount_no_pending ==
    LET total_revenue == SumAmounts(purchases, {COMPLETED})
        total_withdraws == SumAmounts(withdraws, {APPROVED, COMPLETED})
        commission == (total_revenue * COMMISSION_PERCENT) \div 100
    IN Max(0, total_revenue - total_withdraws - commission)

\* WithdrawService._calculate_available_amount
calculate_available_amount ==
    LET total_revenue == SumAmounts(purchases, {COMPLETED})
        total_withdraws == SumAmounts(withdraws, {APPROVED, COMPLETED})
        pending_withdraws == SumAmounts(withdraws, {PENDING})
        commission == (total_revenue * COMMISSION_PERCENT) \div 100
        available == total_revenue - total_withdraws - pending_withdraws - commission
    IN Max(0, available)

\* The arithmetic of FinanceService.calculate_withdrawable_amount on the three sums
\* its queries return.
WithdrawableAmount(total_revenue, total_withdraws, pending_withdraws) ==
    LET commission_amount == (total_revenue * COMMISSION_PERCENT) \div 100
        available_amount ==
            total_revenue - total_withdraws - pending_withdraws - commission_amount
    IN [total_revenue |-> total_revenue,
        total_withdraws |-> total_withdraws,
        pending_withdraws |-> pending_withdraws,
        available_amount |-> Max(0, available_amount),
        commission_amount |-> commission_amount]

\* FinanceService.calculate_withdrawable_amount
calculate_withdrawable_amount ==
    WithdrawableAmount(SumAmounts(purchases, {COMPLETED}),
                       SumAmounts(withdraws, {"approved", "completed"}),
                       SumAmounts(withdraws, {"pending"}))

\* A variant without the lower limit.
create_withdraw_request_check_no_min(amount) ==
    IF amount > MAX_WITHDRAW_AMOUNT THEN "above_max"
    ELSE IF amount > calculate_available_amount THEN "insufficient_funds"
    ELSE "ok"

\* The check of create_withdraw_request: "ok", or the ValueError it raises.
create_withdraw_request_check(amount) ==
    IF amount < MIN_WITHDRAW_AMOUNT THEN "below_min"
    ELSE IF amount > MAX_WITHDRAW_AMOUNT THEN "above_max"
    ELSE IF amount > calculate_available_amount THEN "insufficient_funds"
    ELSE "ok"

NewWithdraw(amount) ==
    [amount |-> amount, status |-> PENDING, admin_id |-> 0, notes |-> "none",
     processed_at |-> -1]

\* A variant that approves without looking at the balance again.
approve_withdraw_no_recheck(request_id, admin_id, notes) ==
    IF request_id \notin WithdrawIds
    THEN [ok |-> FALSE, withdraws |-> withdraws]
    ELSE IF withdraws[request_id].status # PENDING
    THEN [ok |-> FALSE, withdraws |-> withdraws]
    ELSE [ok |-> TRUE,
          withdraws |-> [withdraws EXCEPT ![request_id] =
              [@ EXCEPT !.status = APPROVED, !.admin_id = admin_id,
                        !.processed_at = now,
                        !.notes = IF notes # "" THEN notes ELSE @]]]

\* approve_withdraw(request_id, admin_id, notes): the result and the table after it.
approve_withdraw(request_id, admin_id, notes) ==
    IF request_id \notin WithdrawIds
    THEN [ok |-> FALSE, withdraws |-> withdraws]
    ELSE IF withdraws[request_id].status # PENDING
    THEN [ok |-> FALSE, withdraws |-> withdraws]
    ELSE IF withdraws[request_id].amount > calculate_available_amount
    THEN [ok |-> FALSE,
          withdraws |-> [withdraws EXCEPT ![request_id] =
              [@ EXCEPT !.status = REJECTED, !.notes = "insufficient_funds",
                        !.admin_id = admin_id, !.processed_at = now]]]
    ELSE [ok |-> TRUE,
          withdraws |-> [withdraws EXCEPT ![request_id] =
              [@ EXCEPT !.status = APPROVED, !.admin_id = admin_id,
                        !.processed_at = now,
                        !.notes = IF notes # "" THEN notes ELSE @]]]

\* A variant that rejects a request whatever its status.
reject_withdraw_any_status(request_id, admin_id, reason) ==
    IF request_id \notin WithdrawIds
    THEN [ok |-> FALSE, withdraws |-> withdraws]
    ELSE [ok |-> TRUE,
          withdraws |-> [withdraws EXCEPT ![request_id] =
              [@ EXCEPT !.status = REJECTED, !.admin_id = admin_id,
                        !.notes = reason, !.processed_at = now]]]

\* reject_withdraw(request_id, admin_id, reason)
reject_withdraw(request_id, admin_id, reason) ==
    IF request_id \notin WithdrawIds
    THEN [ok |-> FALSE, withdraws |-> withdraws]
    ELSE IF withdraws[request_id].status # PENDING
    THEN [ok |-> FALSE, withdraws |-> withdraws]
    ELSE [ok |-> TRUE,
          withdraws |-> [withdraws EXCEPT ![request_id] =
              [@ EXCEPT !.status = REJECTED, !.admin_id = admin_id,
                        !.notes = reason, !.processed_at = now]]]

\* process_withdraw(request_id, admin_id)
process_withdraw(request_id, admin_id) ==
    IF request_id \notin WithdrawIds
    THEN [ok |-> FALSE, withdraws |-> withdraws]
    ELSE IF withdraws[request_id].status # APPROVED
    THEN [ok |-> FALSE, withdraws |-> withdraws]
    ELSE [ok |-> TRUE,
          withdraws |-> [withdraws EXCEPT ![request_id] =
              [@ EXCEPT !.status = COMPLETED, !.admin_id = admin_id,
                        !.processed_at = now]]]

\* The fields a WithdrawRequestUpdate carries, "unset" for a field the caller left
\* out (model_dump(exclude_unset=True) drops it).  The schema is imported from
\* shared.schemas, which does not define it; it is taken to carry the status and
\* the notes of the WithdrawRequest the specification describes, as PurchaseUpdate
\* and SupportTicketUpdate carry the status of their rows.
WithdrawRequestUpdate(status, notes) == [status |-> status, notes |-> notes]

\* update_withdraw_request(request_id, update_data, admin_id): every field the
\* update carries is written to the row; admin_id is written when given.
update_withdraw_request(request_id, update_data, admin_id) ==
    IF request_id \notin WithdrawIds
    THEN [ok |-> FALSE, withdraws |-> withdraws]
    ELSE [ok |-> TRUE,
          withdraws |-> [withdraws EXCEPT ![request_id] =
              [@ EXCEPT !.status = IF update_data.status # "unset"
                                   THEN update_data.status ELSE @,
                        !.notes = IF update_data.notes # "unset"
                                  THEN update_data.notes ELSE @,
                        !.admin_id = IF admin_id # 0 THEN admin_id ELSE @]]]

RequestsInFlight == Cardinality({c \in Clients : requester[c].pc # "idle"})

\* create_withdraw_request, the validation and the balance queries.
RequestBegin(c, amount) ==
    /\ requester[c].pc = "idle"
    /\ Len(withdraws) + RequestsInFlight < MaxWithdraws
    /\ LET chk == create_withdraw_request_check(amount)
       IN IF chk = "ok"
          THEN /\ requester' = [requester EXCEPT ![c] = [pc |-> "checked", amount |-> amount]]
               /\ ret' = ret
          ELSE /\ requester' = requester
               /\ ret' = Ret("create_withdraw_request", 0, FALSE, amount, chk)
    /\ UNCHANGED <<now, audit, catalogVars, purchases, promoVars, withdraws, creator, sweeper, tasks>>

\* create_withdraw_request, the insert of the pending row.
RequestCommit(c) ==
    /\ requester[c].pc = "checked"
    /\ withdraws' = Append(withdraws, NewWithdraw(requester[c].amount))
    /\ requester' = [requester EXCEPT ![c] = IdleRequester]
    /\ ret' = Ret("create_withdraw_request", Len(withdraws) + 1, TRUE, requester[c].amount, "ok")
    /\ UNCHANGED <<now, audit, catalogVars, purchases, promoVars, creator, sweeper, tasks>>

Approve(request_id, admin_id, notes) ==
    /\ LET r == approve_withdraw(request_id, admin_id, notes)
       IN /\ withdraws' = r.withdraws
          /\ ret' = Ret("approve_withdraw", request_id, r.ok, 0,
                        IF request_id \in WithdrawIds
                        THEN withdraws[request_id].status ELSE "none")
    /\ UNCHANGED <<now, audit, catalogVars, purchases, promoVars, requester, creator, sweeper, tasks>>

Reject(request_id, admin_id, reason) ==
    /\ LET r == reject_withdraw(request_id, admin_id, reason)
       IN /\ withdraws' = r.withdraws
          /\ ret' = Ret("reject_withdraw", request_id, r.ok, 0,
                        IF request_id \in WithdrawIds
                        THEN withdraws[request_id].status ELSE "none")
    /\ UNCHANGED <<now, audit, catalogVars, purchases, promoVars, requester, creator, sweeper, tasks>>

Complete(request_id, admin_id) ==
    /\ LET r == process_withdraw(request_id, admin_id)
       IN /\ withdraws' = r.withdraws
          /\ ret' = Ret("process_withdraw", request_id, r.ok, 0,
                        IF request_id \in WithdrawIds
                        THEN withdraws[request_id].status ELSE "none")
    /\ UNCHANGED <<now, audit, catalogVars, purchases, promoVars, requester, creator, sweeper, tasks>>

UpdateRequest(request_id, update_data, admin_id) ==
    /\ LET r == update_withdraw_request(request_id, update_data, admin_id)
       IN /\ withdraws' = r.withdraws
          /\ ret' = Ret("update_withdraw_request", request_id, r.ok, 0,
                        IF request_id \in WithdrawIds
                        THEN withdraws[request_id].status ELSE "none")
    /\ UNCHANGED <<now, audit, catalogVars, purchases, promoVars, requester, creator, sweeper, tasks>>

----------------------------------------------------------------------------
(* Initial state: an empty store with the catalogue the CRUD layer holds.  *)

InitCatalog ==
    /\ lessons = (1 :> [price |-> 130, is_active |-> TRUE]
                  @@ 2 :> [price |-> 50, is_active |-> FALSE])
    /\ courses = (1 :> [total_price |-> 500, discount_price |-> 400, is_active |-> TRUE])
    /\ users = (1 :> [is_active |-> TRUE] @@ 2 :> [is_active |-> TRUE]
                @@ 3 :> [is_active |-> FALSE])

InitCommon ==
    /\ now = 0
    /\ InitCatalog
    /\ purchases = <<>>
    /\ withdraws = <<>>
    /\ creator = [c \in Clients |-> IdleCreator]
    /\ redeemer = [c \in Clients |-> IdleRedeemer]
    /\ sweeper = IdleSweeper
    /\ requester = [c \in Clients |-> IdleRequester]
    /\ tasks = <<>>
    /\ ret = NoRet
    /\ audit = <<>>

InitPay ==
    /\ InitCommon
    /\ promos = <<>>
    /\ redeem_ok = <<>>
    /\ promo_incr = <<>>

\* The expiry sweeper beside intent creation and the provider's confirmations.
NextSweep ==
    \/ \E c \in {1}, u \in {1}, t \in {"lesson", "course"} : CreatePayment(c, u, 1, t)
    \/ \E id \in PurchaseIds : PaymentWebhook(UpdateFor(purchases[id], "genuine"))
    \/ WebhookTask
    \/ SweepQuery
    \/ SweepCommit
    \/ \E d \in TickSteps : Tick(d)

SpecSweep == InitPay /\ [][NextSweep]_vars

\* Intent creation, the service's finalize and fail calls, and the webhook with
\* every kind of update.
NextHook ==
    \/ \E c \in {1}, u \in {1}, t \in {"lesson", "course"} : CreatePayment(c, u, 1, t)
    \/ \E id \in 1..MaxPurchases : FinalizeIntent(id)
    \/ \E id \in 1..MaxPurchases : FailIntent(id)
    \/ \E id \in PurchaseIds, k \in UpdateKinds : PaymentWebhook(UpdateFor(purchases[id], k))
    \/ WebhookTask

SpecHook == InitPay /\ [][NextHook]_vars

\* Promo codes: the store holds TEST10 (10 percent), unlimited (max_uses NULL) or
\* limited to 1..MaxUses uses.
PromoRow(percent, amount, max_uses) ==
    [discount_percent |-> percent, discount_amount |-> amount, max_uses |-> max_uses,
     current_uses |-> 0, is_active |-> TRUE, expires_at |-> 0]

InitPromo ==
    /\ InitCommon
    /\ \E n \in 0..MaxUses : promos = ("TEST10" :> PromoRow(10, 0, n))
    /\ redeem_ok = ("TEST10" :> 0)
    /\ promo_incr = ("TEST10" :> 0)

CodeInputs == {"TEST10", "test10", "NOPE"}

NextPromo ==
    \/ \E c \in Clients, code \in CodeInputs : RedeemBegin(c, code)
    \/ \E c \in Clients : RedeemCommit(c)
    \/ \E c \in Clients, code \in CodeInputs : CreateBegin(c, 1, 1, "lesson", code)
    \/ \E c \in Clients : CreatePromoCommit(c)
    \/ \E c \in Clients : CreateInsert(c)
    \/ \E c \in Clients : CreateInsertFails(c)

SpecPromo == InitPromo /\ [][NextPromo]_vars

\* The pre-checkout gate beside intents that are created, completed and failed and
\* a lesson that is deactivated and activated again.
PreCheckoutKinds == {"genuine", "unknown_id", "empty", "malformed", "no_id"}

NextCheckout ==
    \/ \E t \in {"lesson", "course"} : CreatePayment(1, 1, 1, t)
    \/ \E id \in 1..MaxPurchases : FinalizeIntent(id)
    \/ \E id \in 1..MaxPurchases : FailIntent(id)
    \/ \E b \in BOOLEAN : UpdateLesson(1, b)
    \/ \E id \in PurchaseIds, k \in PreCheckoutKinds : PreCheckout(UpdateFor(purchases[id], k))

SpecCheckout == InitPay /\ [][NextCheckout]_vars

\* create_payment with users, items and item types that exist, are inactive or are
\* unknown, with and without a promo code.
UserInputs == {1, 3, 4}
ItemInputs == {1, 2, 3}
ItemTypeInputs == {"lesson", "course", "bundle"}

NextIntent ==
    \/ \E u \in UserInputs, i \in ItemInputs, t \in ItemTypeInputs : CreatePayment(1, u, i, t)
    \/ \E u \in UserInputs, i \in ItemInputs, t \in ItemTypeInputs, code \in CodeInputs :
          CreateBegin(1, u, i, t, code)
    \/ CreatePromoCommit(1)
    \/ CreateInsert(1)
    \/ \E id \in 1..MaxPurchases : FinalizeIntent(id)

SpecIntent == InitPromo /\ [][NextIntent]_vars

\* Validation of a promo code that may be inactive, may expire at minute 15 and
\* may be limited, while it is redeemed and time passes.
InitValidate ==
    /\ InitCommon
    /\ \E active \in BOOLEAN, e \in {0, 15}, n \in 0..MaxUses :
          promos = ("TEST10" :> [PromoRow(10, 0, n) EXCEPT !.is_active = active,
                                                          !.expires_at = e])
    /\ redeem_ok = ("TEST10" :> 0)
    /\ promo_incr = ("TEST10" :> 0)

NextValidate ==
    \/ \E code \in CodeInputs : Validate(code)
    \/ \E code \in CodeInputs : RedeemBegin(1, code)
    \/ RedeemCommit(1)
    \/ \E d \in TickSteps : Tick(d)

SpecValidate == InitValidate /\ [][NextValidate]_vars

\* verify_payment on the data reported for intents that are created and
\* completed, with a payload created with the intent or at the time of the call.
VerifyKinds == {"genuine", "wrong_amount", "wrong_currency", "wrong_payload", "unknown_id"}

NextVerify ==
    \/ \E t \in {"lesson", "course"} : CreatePayment(1, 1, 1, t)
    \/ \E id \in 1..MaxPurchases : FinalizeIntent(id)
    \/ \E id \in PurchaseIds, k \in VerifyKinds :
          \E ts \in {purchases[id].created_at, now} :
          VerifyPayment(UpdateFor(purchases[id], k).payment_id,
                        TelegramData(UpdateFor(purchases[id], k), ts))
    \/ \E d \in TickSteps : Tick(d)

SpecVerify == InitPay /\ [][NextVerify]_vars

\* The expiry sweeper, run again and again: a run that has loaded its rows commits
\* or stops with an error; runs that reach their commit again and again do not all
\* stop with an error.
NextExpiry ==
    \/ \E t \in {"lesson", "course"} : CreatePayment(1, 1, 1, t)
    \/ \E id \in 1..MaxPurchases : FinalizeIntent(id)
    \/ SweepQuery
    \/ SweepCommit
    \/ SweepAbort
    \/ \E d \in TickSteps : Tick(d)

SpecExpiry ==
    /\ InitPay
    /\ [][NextExpiry]_vars
    /\ WF_vars(SweepQuery)
    /\ SF_vars(SweepCommit)

\* The two discount computations: the store holds one unlimited promo code, with a
\* percentage or a fixed amount.
DiscountPercents == {0, 10, 33, 100}
DiscountAmounts == {0, 20, 200}
AmountInputs == {1, 10, 100, 130}

InitDiscount ==
    /\ InitCommon
    /\ \E pc \in DiscountPercents, a \in DiscountAmounts :
          promos = ("TEST10" :> PromoRow(pc, a, 0))
    /\ redeem_ok = ("TEST10" :> 0)
    /\ promo_incr = ("TEST10" :> 0)

NextDiscount ==
    \/ \E a \in AmountInputs : ApplyDiscount("TEST10", a)
    \/ \E t \in {"lesson", "course"} : CreateBegin(1, 1, 1, t, "test10")
    \/ CreatePromoCommit(1)
    \/ CreateInsert(1)

SpecDiscount == InitDiscount /\ [][NextDiscount]_vars

\* The same with the base amount 0 of a free lesson.
FreeAmountInputs == {0} \cup AmountInputs

NextFree ==
    \/ \E a \in FreeAmountInputs : ApplyDiscount("TEST10", a)
    \/ \E t \in {"lesson", "course"} : CreateBegin(1, 1, 1, t, "test10")
    \/ CreatePromoCommit(1)
    \/ CreateInsert(1)

SpecFree == InitDiscount /\ [][NextFree]_vars

\* The withdrawal ledger beside purchases that are created and completed.
WithdrawInputs == {50, 100, 200, MAX_WITHDRAW_AMOUNT + 1}

NextWithdraw ==
    \/ \E t \in {"lesson", "course"} : CreatePayment(1, 1, 1, t)
    \/ \E id \in 1..MaxPurchases : FinalizeIntent(id)
    \/ \E c \in Clients, a \in WithdrawInputs : RequestBegin(c, a)
    \/ \E c \in Clients : RequestCommit(c)
    \/ \E id \in 1..MaxWithdraws : Approve(id, 1, "")
    \/ \E id \in 1..MaxWithdraws : Reject(id, 1, "reason")
    \/ \E id \in 1..MaxWithdraws : Complete(id, 1)

SpecWithdraw == InitPay /\ [][NextWithdraw]_vars

\* The same with handle_failed_payment among the purchase operations.
NextLedger ==
    \/ NextWithdraw
    \/ \E id \in 1..MaxPurchases : FailIntent(id)

SpecLedger == InitPay /\ [][NextLedger]_vars

\* The ledger's operations with the administrator's update_withdraw_request.
UpdateInputs ==
    {WithdrawRequestUpdate(st, "unset") : st \in {"unset", COMPLETED, PENDING}}
    \cup {WithdrawRequestUpdate("unset", "edited")}

NextAdmin ==
    \/ CreatePayment(1, 1, 1, "lesson")
    \/ \E id \in 1..MaxPurchases : FinalizeIntent(id)
    \/ \E c \in Clients, a \in {100} : RequestBegin(c, a)
    \/ \E c \in Clients : RequestCommit(c)
    \/ \E id \in 1..MaxWithdraws : Approve(id, 1, "")
    \/ \E id \in 1..MaxWithdraws : Reject(id, 1, "reason")
    \/ \E id \in 1..MaxWithdraws : Complete(id, 1)
    \/ \E id \in 1..MaxWithdraws, d \in UpdateInputs : UpdateRequest(id, d, 1)

SpecAdmin == InitPay /\ [][NextAdmin]_vars

----------------------------------------------------------------------------
(* Claims about the purchase lifecycle.                                    *)

TerminalStatuses == {COMPLETED, FAILED, REFUNDED}

\* C3: once a Purchase is completed, failed or refunded, neither FailIntent
\* (handle_failed_payment) nor FinalizeIntent (process_successful_payment)
\* changes its status.
C3_TerminalStatusKept ==
    [][\A id \in 1..MaxPurchases :
          ( /\ FailIntent(id) \/ FinalizeIntent(id)
            /\ id \in PurchaseIds
            /\ purchases[id].status \in TerminalStatuses )
          => purchases'[id].status = purchases[id].status]_vars

\* C4: the sweeper's commit never turns a Purchase that a webhook has completed
\* since the sweeper's query into failed.
C4_SweepKeepsCompleted ==
    [][SweepCommit =>
          \A id \in PurchaseIds :
              purchases[id].status = COMPLETED => purchases'[id].status = COMPLETED]_vars

\* C8: the webhook task moves a Purchase from pending to completed only if the
\* update's amount is the Purchase's amount, its currency is XTR and its payload
\* carries the Purchase's user, item and payment_id.
C8_CompletedOnlyIfVerified ==
    [][WebhookTask =>
          \A id \in PurchaseIds :
              (purchases[id].status = PENDING /\ purchases'[id].status = COMPLETED)
              => /\ Head(tasks).total_amount = purchases[id].amount
                 /\ Head(tasks).currency = TELEGRAM_STARS_CURRENCY
                 /\ Head(tasks).payment_id = purchases[id].payment_id
                 /\ Head(tasks).user_id = purchases[id].user_id
                 /\ Head(tasks).item_id = InvoicePayload(purchases[id]).item_id
                 /\ Head(tasks).item_type = InvoicePayload(purchases[id]).item_type]_vars

\* C9: every FinalizeIntent call on an existing Purchase returns success and leaves
\* it completed; on a Purchase that is already completed no Purchase changes its
\* status (the call rewrites updated_at, which is no state of the lifecycle).
C9_FinalizeIdempotent ==
    [][\A id \in 1..MaxPurchases :
          (FinalizeIntent(id) /\ id \in PurchaseIds)
          => /\ ret'.ok
             /\ purchases'[id].status = COMPLETED
             /\ purchases[id].status = COMPLETED =>
                    /\ Len(purchases') = Len(purchases)
                    /\ \A j \in PurchaseIds :
                          purchases'[j].status = purchases[j].status]_vars

\* A second FinalizeIntent call has returned: it found the Purchase completed.
C9_SecondFinalizeReturned ==
    /\ ret.op = "process_successful_payment"
    /\ ret.ok
    /\ ret.prev = COMPLETED
    /\ purchases[ret.arg].status = COMPLETED

----------------------------------------------------------------------------
(* Claims about promo codes.                                               *)

\* C1: for a PromoCode with max_uses = N, at most N use_promo_code calls return
\* success, however the calls interleave.
C1_RedeemSucceedsAtMostN ==
    \A code \in DOMAIN promos :
        promos[code].max_uses # 0 => redeem_ok[code] <= promos[code].max_uses

\* C2: a PromoCode whose max_uses is set never has current_uses above max_uses,
\* under any interleaving of create_payment and use_promo_code calls.  (The
\* administrator's update_promo_code, which can set max_uses below the counter,
\* is not among the operations this statement ranges over.)
C2_UsesWithinLimit ==
    \A code \in DOMAIN promos :
        promos[code].max_uses # 0 => promos[code].current_uses <= promos[code].max_uses

\* Both create_payment and use_promo_code have incremented a limited code, more
\* calls have succeeded than max_uses allows, and the counter stands at max_uses.
C2_LimitReachedByBoth ==
    \E code \in DOMAIN promos :
        /\ promos[code].max_uses # 0
        /\ promos[code].current_uses = promos[code].max_uses
        /\ redeem_ok[code] >= 1
        /\ promo_incr[code] >= 1
        /\ redeem_ok[code] + promo_incr[code] > promos[code].max_uses

----------------------------------------------------------------------------
(* Claims about the withdrawal ledger.                                     *)

\* The sum of f over the finite set S.
RECURSIVE SetSum(_, _)
SetSum(S, f) ==
    IF S = {} THEN 0
    ELSE LET x == CHOOSE y \in S : TRUE IN f[x] + SetSum(S \ {x}, f)

Revenue ==
    SetSum({id \in PurchaseIds : purchases[id].status = COMPLETED},
           [id \in PurchaseIds |-> purchases[id].amount])

WithdrawnIn(statuses) ==
    SetSum({id \in WithdrawIds : withdraws[id].status \in statuses},
           [id \in WithdrawIds |-> withdraws[id].amount])

Commission == (Revenue * COMMISSION_PERCENT) \div 100

C6_RequestedWithinRevenue ==
    WithdrawnIn({APPROVED, COMPLETED, PENDING}) <= Revenue - Commission

\* C7: both implementations of AvailableBalance return
\* max(0, R - W - P - floor(R * commission_percent / 100)); for R = 10000, W = 2000,
\* P = 500 that is 7000.
C7_AvailableBalance ==
    LET expected == Max(0, Revenue - WithdrawnIn({APPROVED, COMPLETED})
                           - WithdrawnIn({PENDING}) - Commission)
    IN /\ calculate_available_amount = expected
       /\ calculate_withdrawable_amount.available_amount = expected
       /\ calculate_withdrawable_amount.commission_amount = Commission
       /\ WithdrawableAmount(10000, 2000, 500).available_amount = 7000
       /\ WithdrawableAmount(10000, 2000, 500).commission_amount = 500

\* Revenue whose commission is rounded down, an approved and a pending request,
\* and a positive balance left.
C7_BalanceWithAllTerms ==
    /\ (Revenue * COMMISSION_PERCENT) % 100 # 0
    /\ WithdrawnIn({APPROVED}) > 0
    /\ WithdrawnIn({PENDING}) > 0
    /\ calculate_available_amount > 0

----------------------------------------------------------------------------
(* Claims about the operations of the withdrawal ledger.                   *)

\* AvailableBalance as the specification words it.
AvailableBalance ==
    Max(0, Revenue - WithdrawnIn({APPROVED, COMPLETED}) - WithdrawnIn({PENDING})
           - Commission)

\* C11: Approve on a pending WithdrawRequest compares its amount with
\* AvailableBalance at that moment: above it, the request becomes rejected with
\* the explanatory note and Approve returns false; otherwise it becomes approved
\* with admin_id and processed_at set and Approve returns true.
C11_ApproveRechecksBalance ==
    [][\A id \in 1..MaxWithdraws :
          ( /\ Approve(id, 1, "")
            /\ id \in WithdrawIds
            /\ withdraws[id].status = PENDING )
          => /\ \A j \in WithdrawIds \ {id} : withdraws'[j] = withdraws[j]
             /\ IF withdraws[id].amount > AvailableBalance
                THEN /\ ~ret'.ok
                     /\ withdraws'[id].status = REJECTED
                     /\ withdraws'[id].notes = "insufficient_funds"
                ELSE /\ ret'.ok
                     /\ withdraws'[id].status = APPROVED
                     /\ withdraws'[id].admin_id = 1
                     /\ withdraws'[id].processed_at = now]_vars

\* One request was rejected by Approve for lack of funds and another one was
\* approved, with its administrator and its time of processing.
C11_RejectedAndApproved ==
    \E i, j \in WithdrawIds :
        /\ withdraws[i].status = REJECTED
        /\ withdraws[i].notes = "insufficient_funds"
        /\ withdraws[j].status = APPROVED
        /\ withdraws[j].admin_id = 1
        /\ withdraws[j].processed_at = now

\* C12: RequestWithdraw stores a pending WithdrawRequest of the amount exactly
\* when min_withdraw <= amount <= max_withdraw and amount <= AvailableBalance at
\* the time of the request; otherwise it raises and stores nothing.
C12_RequestCreatesIffValid ==
    [][ /\ \A c \in Clients, a \in WithdrawInputs :
              RequestBegin(c, a) =>
                  /\ withdraws' = withdraws
                  /\ IF /\ MIN_WITHDRAW_AMOUNT <= a
                        /\ a <= MAX_WITHDRAW_AMOUNT
                        /\ a <= AvailableBalance
                     THEN requester'[c] = [pc |-> "checked", amount |-> a]
                     ELSE /\ requester' = requester
                          /\ ret'.op = "create_withdraw_request"
                          /\ ~ret'.ok
        /\ \A c \in Clients :
              RequestCommit(c) =>
                  /\ Len(withdraws') = Len(withdraws) + 1
                  /\ \A j \in WithdrawIds : withdraws'[j] = withdraws[j]
                  /\ withdraws'[Len(withdraws')].amount = requester[c].amount
                  /\ withdraws'[Len(withdraws')].status = PENDING
                  /\ ret'.ok ]_vars

\* A request was stored after an earlier one, and the last call was refused for
\* lack of funds.
C12_StoredThenRefused ==
    /\ Len(withdraws) >= 1
    /\ withdraws[1].status = PENDING
    /\ ret.op = "create_withdraw_request"
    /\ ~ret.ok
    /\ ret.prev = "insufficient_funds"
    /\ ret.val >= MIN_WITHDRAW_AMOUNT
    /\ ret.val <= MAX_WITHDRAW_AMOUNT

\* C13: Approve and Reject on a request that is not pending, Complete on a request
\* that is not approved, and each of them on an unknown id, return false and
\* leave every request as it was.
C13_WrongSourceStateNoOp ==
    [][\A id \in 1..MaxWithdraws :
          /\ ( /\ Approve(id, 1, "") \/ Reject(id, 1, "reason")
               /\ id \in WithdrawIds => withdraws[id].status # PENDING )
             => (~ret'.ok /\ withdraws' = withdraws)
          /\ ( /\ Complete(id, 1)
               /\ id \in WithdrawIds => withdraws[id].status # APPROVED )
             => (~ret'.ok /\ withdraws' = withdraws)]_vars

\* Reject was called on an approved request and returned false; the request is
\* still approved.
C13_RejectOnApprovedRefused ==
    /\ ret.op = "reject_withdraw"
    /\ ~ret.ok
    /\ ret.prev = APPROVED
    /\ withdraws[ret.arg].status = APPROVED

----------------------------------------------------------------------------
(* Claims about the discount.                                              *)

\* C15: the discount and the final amount create_payment computes for a promo
\* code and a base price are the discount_amount and final_amount apply_discount
\* returns for them, and the final amount is at least the minimum price.
C15_IntentUsesEngineDiscount ==
    \A c \in Clients :
        creator[c].pc # "idle" =>
            LET q == apply_discount(promos[creator[c].code], creator[c].base)
            IN /\ creator[c].discount = q.discount_amount
               /\ creator[c].final = q.final_amount
               /\ creator[c].final >= MIN_PRICE

\* C16: what apply_discount returns satisfies
\* original_amount - discount_amount = final_amount.
C16_DiscountRoundTrip ==
    ret.op = "apply_discount" =>
        /\ ret.val.original_amount = ret.arg
        /\ ret.val.original_amount - ret.val.discount_amount = ret.val.final_amount

\* apply_discount has returned a discount that the minimum price cut short.
C16_CappedDiscountReturned ==
    /\ ret.op = "apply_discount"
    /\ ret.arg = 100
    /\ ret.val.discount_amount = 99
    /\ ret.val.final_amount = MIN_PRICE

\* C17 as stated: a fixed discount is capped at base - minimum price, a percentage
\* discount is floor(base * percent / 100), and the final amount is at least the
\* minimum price.
C17_DiscountAsStated ==
    ret.op = "apply_discount" =>
        LET promo == promos[ret.prev]
            base == ret.arg
        IN /\ ret.val.discount_amount =
                  IF promo.discount_amount # 0
                  THEN Min(promo.discount_amount, base - MIN_PRICE)
                  ELSE (base * promo.discount_percent) \div 100
           /\ ret.val.final_amount >= MIN_PRICE

\* C17, amended: the percentage discount too is capped at base - minimum price.
C17_DiscountCappedInBothModes ==
    /\ ret.op = "apply_discount" =>
          LET promo == promos[ret.prev]
              base == ret.arg
          IN /\ ret.val.discount_amount =
                    IF promo.discount_amount # 0
                    THEN Min(promo.discount_amount, base - MIN_PRICE)
                    ELSE Min((base * promo.discount_percent) \div 100, base - MIN_PRICE)
             /\ ret.val.final_amount >= MIN_PRICE
    /\ apply_discount(PromoRow(10, 0, 0), 100).discount_amount = 10
    /\ apply_discount(PromoRow(10, 0, 0), 100).final_amount = 90
    /\ apply_discount(PromoRow(0, 20, 0), 100).final_amount = 80

\* apply_discount has returned a percentage discount that was rounded down.
C17_RoundedPercentReturned ==
    /\ ret.op = "apply_discount"
    /\ promos[ret.prev].discount_amount = 0
    /\ (ret.arg * promos[ret.prev].discount_percent) % 100 # 0
    /\ ret.val.discount_amount = (ret.arg * promos[ret.prev].discount_percent) \div 100
    /\ ret.val.discount_amount > 0

----------------------------------------------------------------------------
(* Claims about payment intents.                                           *)

\* The Purchases that carry the discount of a promo code.
PurchasesWith(code) ==
    {id \in PurchaseIds :
        LET p == purchases[id]
            base == ItemPrice(InvoicePayload(p).item_id, InvoicePayload(p).item_type)
        IN /\ p.amount # base
           /\ p.amount = apply_promo_code_final(promos[code], base)}

\* C18: whenever no create_payment call is under way, the increments create_payment
\* has made to a promo code's current_uses are as many as the persisted Purchases
\* created with that code, also after a call that failed between its steps.
C18_IncrementOnlyWithPurchase ==
    (\A c \in Clients : creator[c].pc = "idle") =>
        \A code \in DOMAIN promos :
            promo_incr[code] = Cardinality(PurchasesWith(code))

\* C19: the pre_checkout gate answers ok exactly when a Purchase with the payload's
\* payment_id exists, is pending, and its lesson or course is active.
C19_PreCheckoutGate ==
    [][\A id \in PurchaseIds, k \in PreCheckoutKinds :
          PreCheckout(UpdateFor(purchases[id], k)) =>
              LET u == UpdateFor(purchases[id], k)
              IN ret'.ok <=>
                    /\ u.form = "ok"
                    /\ \E j \in PurchaseIds :
                          /\ purchases[j].payment_id = u.payment_id
                          /\ purchases[j].status = PENDING
                          /\ ItemActive(InvoicePayload(purchases[j]).item_id,
                                        InvoicePayload(purchases[j]).item_type)]_vars

\* The cases in which create_payment is to refuse, whatever the promo code.
Refused(user_id, item_id, item_type) ==
    \/ user_id \notin DOMAIN users
    \/ ~users[user_id].is_active
    \/ item_type \notin {"lesson", "course"}
    \/ item_type = "lesson" /\ item_id \notin DOMAIN lessons
    \/ item_type = "lesson" /\ ~lessons[item_id].is_active
    \/ item_type = "course" /\ item_id \notin DOMAIN courses
    \/ item_type = "course" /\ ~courses[item_id].is_active
    \/ \E id \in PurchaseIds :
          /\ purchases[id].user_id = user_id
          /\ purchases[id].status = COMPLETED
          /\ InvoicePayload(purchases[id]).item_id = item_id
          /\ InvoicePayload(purchases[id]).item_type = item_type

\* A promo code that is unknown, inactive, expired or used up.
PromoInvalid(code) ==
    \/ Upper(code) \notin DOMAIN promos
    \/ ~promos[Upper(code)].is_active
    \/ promos[Upper(code)].expires_at # 0 /\ promos[Upper(code)].expires_at < now
    \/ /\ promos[Upper(code)].max_uses # 0
       /\ promos[Upper(code)].current_uses >= promos[Upper(code)].max_uses

\* C20: create_payment raises and changes neither the Purchases nor any promo code
\* when the user is unknown or inactive, the item is unknown or inactive, the item
\* type is unsupported, the user has a completed Purchase of the item, or the
\* promo code supplied is invalid.
C20_RefusedIntentChangesNothing ==
    [][\A u \in UserInputs, i \in ItemInputs, t \in ItemTypeInputs :
          /\ (CreatePayment(1, u, i, t) /\ Refused(u, i, t))
             => (~ret'.ok /\ purchases' = purchases /\ promos' = promos)
          /\ \A code \in CodeInputs :
                (CreateBegin(1, u, i, t, code) /\ (Refused(u, i, t) \/ PromoInvalid(code)))
                => /\ ~ret'.ok
                   /\ purchases' = purchases
                   /\ promos' = promos
                   /\ creator' = creator]_vars

\* create_payment has refused a user who had completed a Purchase of the item, and
\* the store holds that Purchase alone.
C20_DuplicateRefused ==
    /\ ret.op = "create_payment"
    /\ ~ret.ok
    /\ ret.prev = "already_purchased"
    /\ Len(purchases) = 1
    /\ purchases[1].status = COMPLETED

----------------------------------------------------------------------------
(* Claims about the audit log.                                             *)

\* C21: a create_payment that stores a Purchase, and a FinalizeIntent or FailIntent
\* that moves a pending Purchase, each append the audit entry of that transition;
\* a FinalizeIntent on a Purchase that is already completed appends no second
\* completion entry.
C21_TransitionsAudited ==
    [][ /\ \A t \in {"lesson", "course"} :
              (CreatePayment(1, 1, 1, t) /\ Len(purchases') = Len(purchases) + 1)
              => audit' = log_payment_created(purchases'[Len(purchases')].payment_id, 1,
                                              purchases'[Len(purchases')].amount)
        /\ \A id \in PurchaseIds :
              /\ (FinalizeIntent(id) /\ purchases[id].status = PENDING)
                 => audit' = log_payment_completed(purchases[id].payment_id,
                                                   purchases[id].amount,
                                                   purchases[id].user_id)
              /\ (FinalizeIntent(id) /\ purchases[id].status = COMPLETED)
                 => \A k \in 1..Len(audit') :
                        k > Len(audit) => audit'[k].action # "payment_completed"
              /\ (FailIntent(id) /\ purchases[id].status = PENDING)
                 => audit' = log_payment_failed(purchases[id].payment_id, "error",
                                                purchases[id].user_id,
                                                purchases[id].amount) ]_vars

----------------------------------------------------------------------------
(* Claims about the validation of promo codes.                             *)

\* C22: validate_promo_code returns the promo code exactly when the code exists,
\* is active, is not past expires_at and has max_uses unset or current_uses below
\* it; otherwise it fails with the first reason that applies of not found,
\* inactive, expired, exhausted; it never changes a promo code.
C22_ValidateReadOnlyAndOrdered ==
    [][\A code \in CodeInputs :
          Validate(code) =>
              LET found == Upper(code) \in DOMAIN promos
                  p == promos[Upper(code)]
                  expired == p.expires_at # 0 /\ now > p.expires_at
                  usedUp == p.max_uses # 0 /\ ~(p.current_uses < p.max_uses)
              IN /\ promos' = promos
                 /\ ret'.ok <=> (found /\ p.is_active /\ ~expired /\ ~usedUp)
                 /\ ret'.prev = IF ~found THEN "not_found"
                                ELSE IF ~p.is_active THEN "inactive"
                                ELSE IF expired THEN "expired"
                                ELSE IF usedUp THEN "exhausted"
                                ELSE "ok"]_vars

\* A promo code that has been redeemed was found valid at the very minute it
\* expires.
C22_ValidAtExpiryMinute ==
    /\ ret.op = "validate_promo_code"
    /\ ret.ok
    /\ promos["TEST10"].expires_at = now
    /\ promos["TEST10"].current_uses >= 1

----------------------------------------------------------------------------
(* Claims about the webhook's acknowledgement and payment verification.    *)

\* The update is malformed, names no known payment_id, or differs from the
\* Purchase it names in amount, currency or a correlation field.
Unverifiable(u) ==
    \/ u.form # "ok"
    \/ WebhookPurchase(u) = 0
    \/ LET p == purchases[WebhookPurchase(u)]
       IN \/ u.total_amount # p.amount
          \/ u.currency # TELEGRAM_STARS_CURRENCY
          \/ [user_id |-> u.user_id, item_id |-> u.item_id, item_type |-> u.item_type,
              payment_id |-> u.payment_id] # InvoicePayload(p)

\* C23: a successful_payment webhook whose payload is malformed, names an unknown
\* payment_id or fails verification is still answered ok = true, and neither the
\* endpoint nor its background task changes the status of any Purchase.
C23_BadUpdateAcknowledgedNoChange ==
    [][ /\ \A id \in PurchaseIds, k \in UpdateKinds :
              (PaymentWebhook(UpdateFor(purchases[id], k))
                  /\ Unverifiable(UpdateFor(purchases[id], k)))
              => /\ ret'.ok
                 /\ purchases' = purchases
        /\ (WebhookTask /\ Unverifiable(Head(tasks)))
              => \A id \in PurchaseIds : purchases'[id].status = purchases[id].status ]_vars

\* C24: verify_payment returns true for a pending Purchase when the reported
\* amount, the currency XTR and the payload's user_id, item_id, item_type and
\* payment_id are the Purchase's, whatever time the payload was created at, and
\* false when the amount differs.
C24_VerifyIgnoresTimestamp ==
    [][\A id \in PurchaseIds, ts \in 0..now :
          /\ (VerifyPayment(purchases[id].payment_id,
                            TelegramData(UpdateFor(purchases[id], "genuine"), ts))
                 /\ purchases[id].status = PENDING)
             => ret'.ok
          /\ VerifyPayment(purchases[id].payment_id,
                           TelegramData(UpdateFor(purchases[id], "wrong_amount"), ts))
             => ~ ret'.ok ]_vars

----------------------------------------------------------------------------
(* Claims about exhausted promo codes, the intent's response, expiry,       *)
(* repeated purchases, approval and free items.                             *)

\* C25: in no reachable state does a promo code have max_uses set, current_uses at
\* or above max_uses and is_active true, whichever operation raised current_uses,
\* create_payment with a promo code included.
C25_ExhaustedIsInactive ==
    \A code \in DOMAIN promos :
        ~ (/\ promos[code].max_uses # 0
           /\ promos[code].current_uses >= promos[code].max_uses
           /\ promos[code].is_active)

\* C26: for a course that has a discount_price, create_payment without a promo code
\* returns amount = the course's total_price, final_amount = its discount_price and
\* discount_applied = 0.
C26_CourseResponseAmounts ==
    [][(CreatePayment(1, 1, 1, "course") /\ ret'.ok /\ courses[1].discount_price # 0)
          => /\ ret'.val.amount = courses[1].total_price
             /\ ret'.val.final_amount = courses[1].discount_price
             /\ ret'.val.discount_applied = 0]_vars

C28_NoSecondCompletedPurchase ==
    \A i, j \in PurchaseIds :
        (/\ i # j
         /\ purchases[i].status = COMPLETED
         /\ purchases[j].status = COMPLETED
         /\ purchases[i].user_id = purchases[j].user_id)
        => /\ ~ (purchases[i].lesson_id # 0 /\ purchases[i].lesson_id = purchases[j].lesson_id)
           /\ ~ (purchases[i].course_id # 0 /\ purchases[i].course_id = purchases[j].course_id)

\* The balance create_withdraw_request compared request id's amount with, in a
\* store that holds every row but that request.
AvailableWithout(id) ==
    LET total_revenue == SumAmounts(purchases, {COMPLETED})
        commission == (total_revenue * COMMISSION_PERCENT) \div 100
    IN Max(0, total_revenue - SumAmounts(withdraws, {APPROVED, COMPLETED})
                - (SumAmounts(withdraws, {PENDING}) - withdraws[id].amount) - commission)

\* C29: approve_withdraw called on a request right after create_withdraw_request
\* accepted it, with the balance the request was accepted against unchanged,
\* approves it and does not reject it for insufficient funds.
C29_AcceptedRequestApproved ==
    [][\A id \in WithdrawIds :
          (/\ Approve(id, 1, "")
           /\ ret = Ret("create_withdraw_request", id, TRUE, withdraws[id].amount, "ok")
           /\ withdraws[id].status = PENDING
           /\ withdraws[id].amount <= AvailableWithout(id))
          => /\ ret'.ok
             /\ withdraws'[id].status = APPROVED]_vars

\* C30: for every promo code and every base amount >= 0, 0 included, apply_discount
\* returns discount_amount >= 0 and final_amount <= original_amount.
C30_DiscountWithinAmount ==
    [][\A a \in FreeAmountInputs :
          (ApplyDiscount("TEST10", a) /\ ret'.ok)
          => /\ ret'.val.discount_amount >= 0
             /\ ret'.val.final_amount <= ret'.val.original_amount]_vars

====
